---- MODULE Spec2Model ----
(***************************************************************************)
(* PlanetPlant ESP32 controller (src/esp32/src/main.cpp, config.h).        *)
(*                                                                         *)
(* The firmware is one cooperative loop().  The model follows it step by   *)
(* step: pc is the position inside setup()/loop(), the program's globals   *)
(* are variables of the same name, and the environment (WiFi, broker,      *)
(* button, inbound MQTT messages, the millisecond clock) is drawn from     *)
(* small sets.  Times are milliseconds, as in the source.                  *)
(***************************************************************************)
EXTENDS Integers, Sequences, FiniteSets, TLC

VARIABLES
    pc,                 \* position in setup()/loop()
    now,                \* millis(), a 32-bit word (see the clock below)
    ticks,              \* number of clock advances made so far (model horizon)
    WATERING_DURATION,  \* build-time macro used by main.cpp, fixed at Init
    pumpActive,         \* main.cpp:47
    pumpStartTime,      \* main.cpp:46
    lastSensorReading,  \* main.cpp:44
    lastHeartbeat,      \* main.cpp:45
    relay,              \* level of PUMP_RELAY_PIN
    connected,          \* client.connected()
    subscribed,         \* topics subscribed on the current connection
    retryCount,         \* local of reconnectMQTT()
    wifiUp,             \* environment: transport reachable
    brokerUp,           \* environment: broker reachable
    button,             \* environment: level of BUTTON_PIN
    requestedDuration,  \* history: duration argument of the last accepted startPump
    lastStopTime,       \* history: millis() at the last stopPump that stopped the pump
    lastPumpEvent,      \* history: action of the last publishPumpStatus call
    transportFails,     \* history: failed attempts of this reconnectMQTT call made with WiFi down
    lastAttempt,        \* history: millis() at the last client.connect call, while
                        \* it is less than MQTT_RECONNECT_INTERVAL old
    data,               \* the SensorData readSensors() returned to the last step
    inbound,            \* the message handed to mqttCallback by the last step
    call,               \* the actuator call (startPump/stopPump) made by the last step
    out                 \* the telemetry calls made by the last step, in order

vars == <<pc, now, ticks, WATERING_DURATION, pumpActive, pumpStartTime,
          lastSensorReading, lastHeartbeat, relay, connected, subscribed,
          retryCount, wifiUp, brokerUp, button, requestedDuration,
          lastStopTime, lastPumpEvent, transportFails, lastAttempt, data,
          inbound, call, out>>

---------------------------------------------------------------------------
(* Constants of the source *)

SENSOR_READ_INTERVAL == 60000
HEARTBEAT_INTERVAL == 300000
MOISTURE_SAMPLES == 10
MOISTURE_SAMPLE_DELAY == 10
PUMP_MAX_DURATION == 10000
PUMP_COOLDOWN_TIME == 300000
WIFI_MAX_RETRY_COUNT == 5
RECONNECT_MAX_ATTEMPTS == 5
RECONNECT_DELAY == 5000
DEBOUNCE_DELAY == 50
HOLD_POLL_DELAY == 10
LOOP_DELAY == 100
SENSOR_BLINK_DELAY == 100
MANUAL_BLINK_TIMES == 3
MANUAL_BLINK_DELAY == 200
MOISTURE_DRY == 1023
MOISTURE_WET == 0
MQTT_RECONNECT_INTERVAL == 5000
CONFIG_HEARTBEAT_INTERVAL == 30000

HIGH == "HIGH"
LOW == "LOW"

---------------------------------------------------------------------------
(* Bounds of the model *)

\* Clock advances followed exactly; past this horizon only LiveSpec runs on.
MaxTicks == 6

\* Values the build may give the WATERING_DURATION macro.
WateringDurations == {5000}

\* Values of the "duration" field of an inbound command.
Durations == {0, 1000, 20000}

\* Numbers of consecutive idle loop passes taken in one step.
IdleSpans == {50, 599, 600}

\* Numbers of passes of the button-hold loop before the release is seen.
HoldSpans == {0, 30000}

\* lastStopTime before the first stop, lastAttempt before the first attempt
NoTime == 0 - 1

\* Sums of the MOISTURE_SAMPLES analogRead values of one readSensors() call
\* (each read is 0..4095)
MoistureSums == {0, 9, 10, 5115, 10229, 10230, 10240, 12000, 40950}

\* Milliseconds left before the clock wraps in the states of LateInit
WrapMargins == {3000}

---------------------------------------------------------------------------
(* Inbound messages *)

Topics == {"water", "config"}

Payloads ==
    {[json |-> FALSE, action |-> "none", hasDuration |-> FALSE, duration |-> 0]}
    \cup
    {p \in [json : {TRUE}, action : {"start", "stop", "pause", "none"},
            hasDuration : BOOLEAN, duration : Durations \cup {0}] :
        /\ (~p.hasDuration => p.duration = 0)
        /\ (p.hasDuration => p.action = "start" /\ p.duration \in Durations)}

\* Every payload arrives on the water topic; the config topic carries a
\* well-formed start command and a payload that does not parse.
Messages ==
    {m \in [topic : Topics, payload : Payloads] :
        m.topic = "config" =>
            \/ ~m.payload.json
            \/ m.payload.action = "start" /\ ~m.payload.hasDuration}

NoMessage == [topic |-> "none",
              payload |-> [json |-> FALSE, action |-> "none",
                           hasDuration |-> FALSE, duration |-> 0]]

NoCall == [op |-> "none", duration |-> 0]

\* no readSensors() call in the step
NoData == [read |-> FALSE, isValid |-> FALSE, rawMoisture |-> 0, moisture |-> 0]

---------------------------------------------------------------------------
(* Telemetry: every publish* function builds its document and hands it to  *)
(* the transport only if client.connected().  A telemetry call is recorded *)
(* with the fields of the document the claims read, the relay level at the *)
(* moment of the call, and whether client.publish was called (sent).       *)

Telemetry(kind, action, duration, active, level, conn) ==
    [kind |-> kind, action |-> action, duration |-> duration,
     pump_active |-> active, relay |-> level, sent |-> conn]

\* publishPumpStatus(action, duration): doc["pump_active"] = pumpActive
publishPumpStatus(action, duration, active, level) ==
    Telemetry("pump", action, duration, active, level, connected)

\* publishStatus(status), called right after a successful client.connect
publishStatus(status, conn) ==
    Telemetry("status", status, 0, pumpActive, relay, conn)

\* publishSensorData(data): doc["sensors"]["pump_active"] = pumpActive
publishSensorData ==
    Telemetry("sensor", "data", 0, pumpActive, relay, connected)

\* publishHeartbeat without its if (client.connected())
publishHeartbeat_NoConnectedGuard ==
    Telemetry("heartbeat", "online", 0, pumpActive, relay, TRUE)

publishHeartbeat ==
    Telemetry("heartbeat", "online", 0, pumpActive, relay, connected)

\* ESP.restart(), recorded as an output of the step that calls it
RestartEvent ==
    Telemetry("restart", "restart", 0, FALSE, LOW, FALSE)

---------------------------------------------------------------------------
(* The actuator.  startPump and stopPump give the pump state they leave    *)
(* behind when called at time t, and the telemetry calls they make.        *)

PumpUnchanged ==
    [active |-> pumpActive, start |-> pumpStartTime, relay |-> relay,
     requested |-> requestedDuration, stopped |-> lastStopTime, events |-> <<>>]

(* unsigned long and int are 32 bits wide on the ESP32.  A 32-bit word is   *)
(* written as the number of -2^31 .. 2^31 - 1 it is congruent to modulo     *)
(* 2^32: the unsigned value u is written u when u < 2^31 and u - 2^32       *)
(* otherwise, so the clock that wraps from 2^32 - 1 to 0 goes from -1 to 0. *)
(* Addition and subtraction modulo 2^32 are then the ones of the integers   *)
(* as long as the result stays in the range, which holds of every value of  *)
(* the model (all within minutes of 0); comparison is where unsigned and    *)
(* signed words differ.                                                     *)

\* a > b for unsigned long a, b
UGt(a, b) == IF (a < 0) = (b < 0) THEN a > b ELSE a < 0

\* millis() - since in unsigned long arithmetic
Elapsed(t, since) == t - since

\* the conversion of an unsigned long to int (int actualDuration = ...):
\* the same 32 bits
ToInt(u) == u

\* startPump without its already-active guard
startPump_NoActiveGuard(duration, t) ==
    [active |-> TRUE, start |-> t, relay |-> HIGH,
     requested |-> duration, stopped |-> lastStopTime,
     events |-> <<publishPumpStatus("started", duration, TRUE, HIGH)>>]

startPump(duration, t) ==
    IF pumpActive
    THEN PumpUnchanged
    ELSE [active |-> TRUE, start |-> t, relay |-> HIGH,
          requested |-> duration, stopped |-> lastStopTime,
          events |-> <<publishPumpStatus("started", duration, TRUE, HIGH)>>]

\* stopPump without its not-active guard
stopPump_NoActiveGuard(t) ==
    [active |-> FALSE, start |-> pumpStartTime, relay |-> LOW,
     requested |-> requestedDuration, stopped |-> t,
     events |-> <<publishPumpStatus("stopped",
                                    ToInt(Elapsed(t, pumpStartTime)),
                                    FALSE, LOW)>>]

\* stopPump without its publishPumpStatus call
stopPump_NoPublish(t) ==
    IF ~pumpActive
    THEN PumpUnchanged
    ELSE [active |-> FALSE, start |-> pumpStartTime, relay |-> LOW,
          requested |-> requestedDuration, stopped |-> t, events |-> <<>>]

\* stopPump without its digitalWrite(PUMP_RELAY_PIN, LOW)
stopPump_RelayLeftHigh(t) ==
    IF ~pumpActive
    THEN PumpUnchanged
    ELSE [active |-> FALSE, start |-> pumpStartTime, relay |-> relay,
          requested |-> requestedDuration, stopped |-> t,
          events |-> <<publishPumpStatus("stopped",
                                         ToInt(Elapsed(t, pumpStartTime)),
                                         FALSE, relay)>>]

stopPump(t) ==
    IF ~pumpActive
    THEN PumpUnchanged
    ELSE [active |-> FALSE, start |-> pumpStartTime, relay |-> LOW,
          requested |-> requestedDuration, stopped |-> t,
          events |-> <<publishPumpStatus("stopped",
                                         ToInt(Elapsed(t, pumpStartTime)),
                                         FALSE, LOW)>>]

\* The state a startPump/stopPump result leaves in the globals
SetPump(r) ==
    /\ pumpActive' = r.active
    /\ pumpStartTime' = r.start
    /\ relay' = r.relay
    /\ requestedDuration' = r.requested
    /\ lastStopTime' = r.stopped
    /\ lastPumpEvent' = IF r.events = <<>> THEN lastPumpEvent
                        ELSE r.events[Len(r.events)].action

PumpVars == <<pumpActive, pumpStartTime, relay, requestedDuration,
              lastStopTime, lastPumpEvent>>

---------------------------------------------------------------------------
(* mqttCallback(topic, payload): the actuator call the message leads to.   *)
(* deserializeJson leaves the document empty when the payload does not     *)
(* parse, so doc["action"] then compares equal to neither string.          *)

docAction(m) == IF m.payload.json THEN m.payload.action ELSE "none"

\* doc["duration"] | WATERING_DURATION
docDuration(m) ==
    IF m.payload.json /\ m.payload.hasDuration
    THEN m.payload.duration ELSE WATERING_DURATION

\* mqttCallback with a plain else in place of else if (action == "stop")
mqttCallback_ElseStop(m) ==
    IF m.topic = "water" /\ docAction(m) = "start"
    THEN [op |-> "start", duration |-> docDuration(m)]
    ELSE IF m.topic = "water"
    THEN [op |-> "stop", duration |-> 0]
    ELSE NoCall

mqttCallback(m) ==
    IF m.topic = "water" /\ docAction(m) = "start"
    THEN [op |-> "start", duration |-> docDuration(m)]
    ELSE IF m.topic = "water" /\ docAction(m) = "stop"
    THEN [op |-> "stop", duration |-> 0]
    ELSE NoCall

\* The pump state after the actuator call c made at time t
Actuate(c, t) ==
    IF c.op = "start" THEN startPump(c.duration, t)
    ELSE IF c.op = "stop" THEN stopPump(t)
    ELSE PumpUnchanged

---------------------------------------------------------------------------
(* The clock.  Each delay of the source advances now.  The model follows   *)
(* MaxTicks advances exactly; with free = TRUE (LiveSpec) the program      *)
(* keeps running past that horizon on a clock that is no longer followed.  *)

\* The last connect attempt, made at t, is remembered while it is recent
Recent(t) ==
    IF t # NoTime /\ now' - t < MQTT_RECONNECT_INTERVAL THEN t ELSE NoTime

AdvanceFrom(d, free, attempt) ==
    /\ IF ticks < MaxTicks
       THEN now' = now + d /\ ticks' = ticks + 1
       ELSE free /\ now' = now /\ ticks' = ticks
    /\ lastAttempt' = Recent(attempt)

Advance(d, free) == AdvanceFrom(d, free, lastAttempt)

Quiet == data' = NoData /\ inbound' = NoMessage /\ call' = NoCall /\ out' = <<>>

---------------------------------------------------------------------------
(* Initial state: setup() has initialised the pins (relay LOW) and is      *)
(* about to call setupWiFi(); the globals hold their initialisers.         *)

Init ==
    /\ pc = "setupWiFi"
    /\ now = 0
    /\ ticks = 0
    /\ WATERING_DURATION \in WateringDurations
    /\ pumpActive = FALSE
    /\ pumpStartTime = 0
    /\ lastSensorReading = 0
    /\ lastHeartbeat = 0
    /\ relay = LOW
    /\ connected = FALSE
    /\ subscribed = {}
    /\ retryCount = 0
    /\ wifiUp \in BOOLEAN
    /\ brokerUp \in BOOLEAN
    /\ button = HIGH
    /\ requestedDuration = 0
    /\ lastStopTime = NoTime
    /\ lastPumpEvent = "none"
    /\ transportFails = 0
    /\ lastAttempt = NoTime
    /\ data = NoData
    /\ inbound = NoMessage
    /\ call = NoCall
    /\ out = <<>>

EnvVars == <<wifiUp, brokerUp, button>>
LinkVars == <<connected, subscribed, retryCount, transportFails>>
TimerVars == <<lastSensorReading, lastHeartbeat>>
ClockVars == <<now, ticks, lastAttempt>>

---------------------------------------------------------------------------
(* setup(): setupWiFi() and setupMQTT() *)

\* wm.autoConnect() succeeds; setupMQTT() only configures the client
SetupWiFiOk ==
    /\ pc = "setupWiFi"
    /\ wifiUp
    /\ pc' = "maintain"
    /\ Quiet
    /\ UNCHANGED <<ClockVars, WATERING_DURATION, PumpVars, TimerVars,
                   LinkVars, EnvVars>>

\* wm.autoConnect() fails: ESP.restart(); the device boots again, the clock
\* and every global start over
SetupWiFiRestart(free) ==
    /\ pc = "setupWiFi"
    /\ ~wifiUp
    /\ IF ticks < MaxTicks THEN ticks' = ticks + 1 ELSE free /\ ticks' = ticks
    /\ now' = 0
    /\ lastAttempt' = NoTime
    /\ pc' = "setupWiFi"
    /\ pumpActive' = FALSE
    /\ pumpStartTime' = 0
    /\ relay' = LOW
    /\ requestedDuration' = 0
    /\ lastStopTime' = NoTime
    /\ lastPumpEvent' = "none"
    /\ lastSensorReading' = 0
    /\ lastHeartbeat' = 0
    /\ connected' = FALSE
    /\ subscribed' = {}
    /\ retryCount' = 0
    /\ transportFails' = 0
    /\ data' = NoData
    /\ inbound' = NoMessage
    /\ call' = NoCall
    /\ out' = <<RestartEvent>>
    /\ UNCHANGED <<WATERING_DURATION, EnvVars>>

---------------------------------------------------------------------------
(* loop(), lines 82-86: connection maintenance *)

\* if (!client.connected()) reconnectMQTT();   (retryCount = 0 on entry)
Maintain ==
    /\ pc = "maintain"
    /\ IF connected
       THEN pc' = "poll" /\ UNCHANGED <<retryCount, transportFails>>
       ELSE pc' = "reconnect" /\ retryCount' = 0 /\ transportFails' = 0
    /\ Quiet
    /\ UNCHANGED <<ClockVars, WATERING_DURATION, PumpVars, TimerVars,
                   connected, subscribed, EnvVars>>

\* One pass of reconnectMQTT's while loop in which client.connect succeeds:
\* subscribe to both command topics, publishStatus("online")
ConnectOk ==
    /\ pc = "reconnect"
    /\ ~connected
    /\ retryCount < RECONNECT_MAX_ATTEMPTS
    /\ wifiUp /\ brokerUp
    /\ connected' = TRUE
    /\ subscribed' = Topics
    /\ lastAttempt' = now
    /\ data' = NoData
    /\ inbound' = NoMessage
    /\ call' = NoCall
    /\ out' = <<publishStatus("online", TRUE)>>
    /\ UNCHANGED <<pc, now, ticks, WATERING_DURATION, PumpVars, TimerVars,
                   retryCount, transportFails, EnvVars>>

\* One pass in which client.connect fails: retryCount++, delay(5000)
ConnectFail(free) ==
    /\ pc = "reconnect"
    /\ ~connected
    /\ retryCount < RECONNECT_MAX_ATTEMPTS
    /\ ~(wifiUp /\ brokerUp)
    /\ retryCount' = retryCount + 1
    /\ transportFails' = transportFails + (IF wifiUp THEN 0 ELSE 1)
    /\ AdvanceFrom(RECONNECT_DELAY, free, now)
    /\ Quiet
    /\ UNCHANGED <<pc, WATERING_DURATION, PumpVars, TimerVars,
                   connected, subscribed, EnvVars>>

\* The while condition fails (connected, or five failed attempts);
\* reconnectMQTT logs and returns to loop(), its local retryCount is gone
ReconnectExit ==
    /\ pc = "reconnect"
    /\ (connected \/ retryCount >= RECONNECT_MAX_ATTEMPTS)
    /\ pc' = "poll"
    /\ retryCount' = 0
    /\ transportFails' = 0
    /\ Quiet
    /\ UNCHANGED <<ClockVars, WATERING_DURATION, PumpVars, TimerVars,
                   connected, subscribed, EnvVars>>

---------------------------------------------------------------------------
(* loop(), line 86: client.loop() reads at most one inbound packet and     *)
(* calls mqttCallback on it                                                *)

PollMessage(m) ==
    /\ pc = "poll"
    /\ connected
    /\ m.topic \in subscribed
    /\ pc' = "timeout"
    /\ data' = NoData
    /\ inbound' = m
    /\ call' = mqttCallback(m)
    /\ LET r == Actuate(mqttCallback(m), now)
       IN  SetPump(r) /\ out' = r.events
    /\ UNCHANGED <<ClockVars, WATERING_DURATION, TimerVars, LinkVars, EnvVars>>

PollNothing ==
    /\ pc = "poll"
    /\ pc' = "timeout"
    /\ Quiet
    /\ UNCHANGED <<ClockVars, WATERING_DURATION, PumpVars, TimerVars,
                   LinkVars, EnvVars>>

---------------------------------------------------------------------------
(* loop(), lines 88-91: pump timeout *)

\* the check written millis() > WATERING_DURATION, pumpStartTime forgotten
PumpOverdue_StartForgotten(t) == pumpActive /\ UGt(t, WATERING_DURATION)

\* the check written millis() > pumpStartTime + WATERING_DURATION
PumpOverdue_AbsoluteDeadline(t) ==
    pumpActive /\ UGt(t, pumpStartTime + WATERING_DURATION)

PumpOverdue(t) == pumpActive /\ UGt(Elapsed(t, pumpStartTime), WATERING_DURATION)

PumpTimeout ==
    /\ pc = "timeout"
    /\ pc' = "sensors"
    /\ data' = NoData
    /\ inbound' = NoMessage
    /\ IF PumpOverdue(now)
       THEN /\ call' = [op |-> "stop", duration |-> 0]
            /\ SetPump(stopPump(now))
            /\ out' = stopPump(now).events
       ELSE /\ call' = NoCall
            /\ out' = <<>>
            /\ UNCHANGED PumpVars
    /\ UNCHANGED <<ClockVars, WATERING_DURATION, TimerVars, LinkVars, EnvVars>>

---------------------------------------------------------------------------
(* loop(), lines 93-100: periodic sensor reading *)

SensorDue(t) == UGt(Elapsed(t, lastSensorReading), SENSOR_READ_INTERVAL)

\* long map(long x, long in_min, long in_max, long out_min, long out_max) of
\* the Arduino core; the division of C truncates toward zero
TruncDiv(a, b) ==
    LET q == (IF a < 0 THEN 0 - a ELSE a) \div (IF b < 0 THEN 0 - b ELSE b)
    IN  IF (a < 0) = (b < 0) THEN q ELSE 0 - q

map(x, in_min, in_max, out_min, out_max) ==
    TruncDiv((x - in_min) * (out_max - out_min), in_max - in_min) + out_min

\* constrain without its lower limit
constrain_NoLowerLimit(x, lo, hi) == IF x > hi THEN hi ELSE x

constrain(x, lo, hi) == IF x < lo THEN lo ELSE IF x > hi THEN hi ELSE x

\* readSensors(): isValid is false when a DHT value is NaN; the moisture
\* percentage is computed either way
readSensors(valid, sum) ==
    LET rawMoisture == sum \div MOISTURE_SAMPLES
    IN  [read |-> TRUE,
         isValid |-> valid,
         rawMoisture |-> rawMoisture,
         moisture |-> constrain(map(rawMoisture, MOISTURE_DRY, MOISTURE_WET,
                                    0, 100), 0, 100)]

\* SensorsRead with lastSensorReading written only for a valid reading
SensorsRead_InvalidNotStamped(valid, ok, sum, free) ==
    /\ pc = "sensors"
    /\ SensorDue(now)
    /\ (ok => valid /\ connected)
    /\ pc' = "heartbeat"
    /\ Advance(MOISTURE_SAMPLES * MOISTURE_SAMPLE_DELAY
               + (IF ok THEN 2 * SENSOR_BLINK_DELAY ELSE 0), free)
    /\ lastSensorReading' = IF valid THEN now' ELSE lastSensorReading
    /\ data' = readSensors(valid, sum)
    /\ inbound' = NoMessage
    /\ call' = NoCall
    /\ out' = IF readSensors(valid, sum).isValid
              THEN <<publishSensorData>> ELSE <<>>
    /\ UNCHANGED <<WATERING_DURATION, PumpVars, lastHeartbeat, LinkVars, EnvVars>>

\* readSensors() takes MOISTURE_SAMPLES delays (valid: the DHT values are
\* numbers; sum: the sum of the moisture samples); a valid reading goes to
\* publishSensorData, which blinks the LED once when client.publish
\* succeeded (ok); then lastSensorReading = millis()
SensorsRead(valid, ok, sum, free) ==
    /\ pc = "sensors"
    /\ SensorDue(now)
    /\ (ok => valid /\ connected)
    /\ pc' = "heartbeat"
    /\ Advance(MOISTURE_SAMPLES * MOISTURE_SAMPLE_DELAY
               + (IF ok THEN 2 * SENSOR_BLINK_DELAY ELSE 0), free)
    /\ lastSensorReading' = now'
    /\ data' = readSensors(valid, sum)
    /\ inbound' = NoMessage
    /\ call' = NoCall
    /\ out' = IF readSensors(valid, sum).isValid
              THEN <<publishSensorData>> ELSE <<>>
    /\ UNCHANGED <<WATERING_DURATION, PumpVars, lastHeartbeat, LinkVars, EnvVars>>

SensorsSkip ==
    /\ pc = "sensors"
    /\ ~SensorDue(now)
    /\ pc' = "heartbeat"
    /\ Quiet
    /\ UNCHANGED <<ClockVars, WATERING_DURATION, PumpVars, TimerVars,
                   LinkVars, EnvVars>>

---------------------------------------------------------------------------
(* loop(), lines 102-106: heartbeat *)

HeartbeatDue(t) == UGt(Elapsed(t, lastHeartbeat), HEARTBEAT_INTERVAL)

Heartbeat ==
    /\ pc = "heartbeat"
    /\ pc' = "button"
    /\ data' = NoData
    /\ inbound' = NoMessage
    /\ call' = NoCall
    /\ IF HeartbeatDue(now)
       THEN out' = <<publishHeartbeat>> /\ lastHeartbeat' = now
       ELSE out' = <<>> /\ UNCHANGED lastHeartbeat
    /\ UNCHANGED <<ClockVars, WATERING_DURATION, PumpVars, lastSensorReading,
                   LinkVars, EnvVars>>

---------------------------------------------------------------------------
(* loop(), lines 108-115: manual button *)

\* digitalRead(BUTTON_PIN) != LOW
ButtonUp ==
    /\ pc = "button"
    /\ button = HIGH
    /\ pc' = "delay"
    /\ Quiet
    /\ UNCHANGED <<ClockVars, WATERING_DURATION, PumpVars, TimerVars,
                   LinkVars, EnvVars>>

\* digitalRead(BUTTON_PIN) == LOW: delay(50)
ButtonDown(free) ==
    /\ pc = "button"
    /\ button = LOW
    /\ pc' = "debounce"
    /\ Advance(DEBOUNCE_DELAY, free)
    /\ Quiet
    /\ UNCHANGED <<WATERING_DURATION, PumpVars, TimerVars, LinkVars, EnvVars>>

\* the second read is not LOW
DebounceReleased ==
    /\ pc = "debounce"
    /\ button = HIGH
    /\ pc' = "delay"
    /\ Quiet
    /\ UNCHANGED <<ClockVars, WATERING_DURATION, PumpVars, TimerVars,
                   LinkVars, EnvVars>>

\* the second read is LOW: manualWatering() = startPump(WATERING_DURATION),
\* blinkLED(3, 200); then the hold loop is entered
manualWatering(free) ==
    /\ pc = "debounce"
    /\ button = LOW
    /\ pc' = "hold"
    /\ data' = NoData
    /\ inbound' = NoMessage
    /\ call' = [op |-> "start", duration |-> WATERING_DURATION]
    /\ LET r == startPump(WATERING_DURATION, now)
       IN  SetPump(r) /\ out' = r.events
    /\ Advance(2 * MANUAL_BLINK_TIMES * MANUAL_BLINK_DELAY, free)
    /\ UNCHANGED <<WATERING_DURATION, TimerVars, LinkVars, EnvVars>>

\* while (digitalRead(BUTTON_PIN) == LOW) delay(10);  the loop is left when
\* the button reads HIGH, after k passes; while the button is held the
\* program takes no other step
HoldExit(k, free) ==
    /\ pc = "hold"
    /\ button = HIGH
    /\ pc' = "delay"
    /\ Advance(k * HOLD_POLL_DELAY, free)
    /\ Quiet
    /\ UNCHANGED <<WATERING_DURATION, PumpVars, TimerVars, LinkVars, EnvVars>>

\* delay(100) at the end of loop()
LoopDelay(free) ==
    /\ pc = "delay"
    /\ pc' = "maintain"
    /\ Advance(LOOP_DELAY, free)
    /\ Quiet
    /\ UNCHANGED <<WATERING_DURATION, PumpVars, TimerVars, LinkVars, EnvVars>>

\* k consecutive passes of loop() in which nothing happens: connected, no
\* inbound message, no timer due at any of the k checks (the last one is
\* made at now + (k-1) * LOOP_DELAY), button up
Idle(k, free) ==
    /\ pc = "maintain"
    /\ connected
    /\ button = HIGH
    /\ LET last == now + (k - 1) * LOOP_DELAY
       IN  /\ ~PumpOverdue(last)
           /\ ~SensorDue(last)
           /\ ~HeartbeatDue(last)
    /\ Advance(k * LOOP_DELAY, free)
    /\ Quiet
    /\ UNCHANGED <<pc, WATERING_DURATION, PumpVars, TimerVars, LinkVars, EnvVars>>

---------------------------------------------------------------------------
(* The environment.  A change of the button, of the transport or of the   *)
(* broker is seen by the program only where it reads them, so each change  *)
(* is taken at the positions that read what it changes: the button at the  *)
(* three digitalRead places, reachability at the connect attempts.  Losing *)
(* an open connection is seen by every client.connected() and may happen   *)
(* anywhere.                                                               *)

EnvStep ==
    /\ Quiet
    /\ UNCHANGED <<pc, ClockVars, WATERING_DURATION, PumpVars, TimerVars,
                   retryCount, transportFails>>

ReadsButton == pc \in {"button", "debounce", "hold"}
ReadsReachability == pc \in {"setupWiFi", "reconnect"}

Press ==
    /\ ReadsButton
    /\ button = HIGH /\ button' = LOW
    /\ EnvStep /\ UNCHANGED <<wifiUp, brokerUp, connected, subscribed>>

Release ==
    /\ ReadsButton
    /\ button = LOW /\ button' = HIGH
    /\ EnvStep /\ UNCHANGED <<wifiUp, brokerUp, connected, subscribed>>

\* the transport goes down: an open broker connection is lost with it
WifiDown ==
    /\ wifiUp /\ wifiUp' = FALSE
    /\ connected \/ ReadsReachability
    /\ connected' = FALSE /\ subscribed' = {}
    /\ EnvStep /\ UNCHANGED <<brokerUp, button>>

WifiBack ==
    /\ ReadsReachability
    /\ ~wifiUp /\ wifiUp' = TRUE
    /\ EnvStep /\ UNCHANGED <<brokerUp, button, connected, subscribed>>

\* the broker becomes unreachable: an open connection is lost
BrokerDown ==
    /\ brokerUp /\ brokerUp' = FALSE
    /\ connected \/ ReadsReachability
    /\ connected' = FALSE /\ subscribed' = {}
    /\ EnvStep /\ UNCHANGED <<wifiUp, button>>

BrokerBack ==
    /\ ReadsReachability
    /\ ~brokerUp /\ brokerUp' = TRUE
    /\ EnvStep /\ UNCHANGED <<wifiUp, button, connected, subscribed>>

Environment ==
    \/ Press
    \/ Release
    \/ WifiDown
    \/ WifiBack
    \/ BrokerDown
    \/ BrokerBack

---------------------------------------------------------------------------
(* Specifications *)

\* setup()
Setup(free) ==
    \/ SetupWiFiOk
    \/ SetupWiFiRestart(free)

\* loop()
Loop(free) ==
    \/ Maintain
    \/ ConnectOk
    \/ ConnectFail(free)
    \/ ReconnectExit
    \/ \E m \in Messages : PollMessage(m)
    \/ PollNothing
    \/ PumpTimeout
    \/ \E valid \in BOOLEAN, ok \in BOOLEAN, sum \in MoistureSums :
            SensorsRead(valid, ok, sum, free)
    \/ SensorsSkip
    \/ Heartbeat
    \/ ButtonUp
    \/ ButtonDown(free)
    \/ DebounceReleased
    \/ manualWatering(free)
    \/ \E k \in HoldSpans : HoldExit(k, free)
    \/ LoopDelay(free)
    \/ \E k \in IdleSpans : Idle(k, free)

Program(free) == Setup(free) \/ Loop(free)

Next == Program(FALSE) \/ Environment

Spec == Init /\ [][Next]_vars

\* The program keeps running past the clock horizon, and a step of the
\* program that stays enabled is eventually taken (loop() never stops by
\* itself); nothing is assumed of the environment.
LiveNext == Program(TRUE) \/ Environment

LiveSpec == Init /\ [][LiveNext]_vars /\ WF_vars(Program(TRUE))

(* The device after 2^32 ms (49.7 days) of uptime less a margin: loop() is  *)
(* at the top of an iteration, the connection is up, the pump is off, and   *)
(* the sensors and the heartbeat were last handled a moment ago.            *)
LateInit ==
    /\ pc = "maintain"
    /\ \E m \in WrapMargins : now = 0 - m
    /\ ticks = 0
    /\ WATERING_DURATION \in WateringDurations
    /\ pumpActive = FALSE
    /\ pumpStartTime = 0
    /\ lastSensorReading = now - 10 * LOOP_DELAY
    /\ lastHeartbeat = now - 20 * LOOP_DELAY
    /\ relay = LOW
    /\ connected = TRUE
    /\ subscribed = Topics
    /\ retryCount = 0
    /\ wifiUp = TRUE
    /\ brokerUp = TRUE
    /\ button = HIGH
    /\ requestedDuration = 0
    /\ lastStopTime = NoTime
    /\ lastPumpEvent = "none"
    /\ transportFails = 0
    /\ lastAttempt = NoTime
    /\ data = NoData
    /\ inbound = NoMessage
    /\ call = NoCall
    /\ out = <<>>

WrapNext == Loop(FALSE) \/ Environment

WrapSpec == LateInit /\ [][WrapNext]_vars

---------------------------------------------------------------------------
(* Vocabulary of the claims *)

IsPumpEvent(e) == e.kind = "pump"
PumpEvents(events) == SelectSeq(events, IsPumpEvent)

Min(a, b) == IF a <= b THEN a ELSE b
Max(a, b) == IF a >= b THEN a ELSE b

\* The specification's effective duration: the requested duration clamped
\* into [0, maxDurationMs]
EffectiveDuration == Min(Max(requestedDuration, 0), PUMP_MAX_DURATION)

\* An inbound command payload that is no well-formed start or stop command
Malformed(p) == ~p.json \/ p.action \notin {"start", "stop"}

\* The order of the steps of setup() and loop(), as pairs of positions
LoopOrder ==
    {<<"setupWiFi", "maintain">>, <<"maintain", "reconnect">>,
     <<"maintain", "poll">>, <<"reconnect", "poll">>, <<"poll", "timeout">>,
     <<"timeout", "sensors">>, <<"sensors", "heartbeat">>,
     <<"heartbeat", "button">>, <<"button", "debounce">>,
     <<"button", "delay">>, <<"debounce", "hold">>, <<"debounce", "delay">>,
     <<"hold", "delay">>, <<"delay", "maintain">>}

\* A step in which reconnectMQTT calls client.connect
ConnectAttempt ==
    /\ pc = "reconnect"
    /\ (~connected /\ connected') \/ retryCount' = retryCount + 1

---------------------------------------------------------------------------
(* C1: after an accepted start(d, t0) the pump is inactive no later than   *)
(* t0 + min(d, maxDurationMs) + one scheduler period.  Stated where the    *)
(* scheduler has just made its timeout check (pc = "sensors"): a pump that *)
(* is still active after the check has not run longer than its effective   *)
(* duration; otherwise it stays on until the next check at the earliest,   *)
(* more than a period past the deadline.                                   *)
C1_Original ==
    (pc = "sensors" /\ pumpActive)
        => Elapsed(now, pumpStartTime) <= EffectiveDuration

(* C2: a start issued at time t with lastStopTime defined and              *)
(* t - lastStopTime < cooldownMs is rejected, so no activation ever begins *)
(* less than the cooldown after the previous stop.                         *)
C2_Original ==
    (pumpActive /\ lastStopTime # NoTime)
        => Elapsed(pumpStartTime, lastStopTime) >= PUMP_COOLDOWN_TIME

(* C3: the pump safety-timeout check runs in every scheduler iteration for *)
(* every behaviour of the environment, the button being held included:     *)
(* whenever the pump is active the scheduler comes to its timeout check    *)
(* again.                                                                  *)
C3_Original == pumpActive ~> (pc = "timeout")

C5_StartWhileActiveRejected ==
    [][ (call'.op = "start" /\ pumpActive)
        => /\ pumpActive'
           /\ pumpStartTime' = pumpStartTime
           /\ requestedDuration' = requestedDuration
           /\ relay' = relay
           /\ out' = <<>> ]_vars

C5_Witness ==
    /\ call.op = "start"
    /\ pumpActive
    /\ out = <<>>
    /\ pumpStartTime < now
    /\ pc = "timeout"

(* C6: a stop call made while the pump is not active changes no actuator   *)
(* state, leaves the relay output alone and raises no "stopped" event; the *)
(* timeout check that follows a commanded stop finds the pump inactive and *)
(* raises no second "stopped" event.                                       *)
C6_StopWhileInactiveNoOp ==
    [][ /\ (call'.op = "stop" /\ ~pumpActive)
            => /\ ~pumpActive'
               /\ pumpStartTime' = pumpStartTime
               /\ lastStopTime' = lastStopTime
               /\ relay' = relay
               /\ out' = <<>>
        /\ (pc = "timeout" /\ ~pumpActive)
            => PumpEvents(out') = <<>> ]_vars

C6_Witness ==
    /\ call.op = "stop"
    /\ ~pumpActive
    /\ out = <<>>
    /\ lastPumpEvent = "stopped"
    /\ pc = "timeout"

(* C7: a step that starts the pump makes exactly one publishPumpStatus     *)
(* call, "started" with the requested duration; a step that stops it (by   *)
(* command or by timeout) exactly one, "stopped" with now - startTime; a   *)
(* step that leaves the pump as it was (rejected start, no-op stop, any    *)
(* other step) makes none; and the calls alternate started, stopped, ...   *)
C7_OneNotificationPerChange ==
    [][ /\ (~pumpActive /\ pumpActive')
            => /\ PumpEvents(out') =
                    <<Telemetry("pump", "started", call'.duration, TRUE, HIGH,
                                connected)>>
               /\ lastPumpEvent \in {"none", "stopped"}
               /\ lastPumpEvent' = "started"
        /\ (pumpActive /\ ~pumpActive')
            => /\ PumpEvents(out') =
                    <<Telemetry("pump", "stopped", now - pumpStartTime, FALSE,
                                LOW, connected)>>
               /\ lastPumpEvent = "started"
               /\ lastPumpEvent' = "stopped"
        /\ (pumpActive' = pumpActive)
            => PumpEvents(out') = <<>> ]_vars

C7_Witness ==
    /\ pc = "sensors"
    /\ call.op = "stop"
    /\ Len(out) = 1
    /\ out[1].action = "stopped"
    /\ out[1].duration > WATERING_DURATION
    /\ lastStopTime = now

(* C8: in every state, and in every telemetry document emitted, the relay  *)
(* output is HIGH if and only if the pump is active.                       *)
C8_RelayFollowsActive ==
    /\ (relay = HIGH) <=> pumpActive
    /\ \A i \in 1..Len(out) : (out[i].relay = HIGH) <=> out[i].pump_active

C8_Witness ==
    /\ pumpActive
    /\ relay = HIGH
    /\ \E i \in 1..Len(out) : out[i].kind = "sensor" /\ out[i].pump_active

(* C9: when the transport stays disconnected through the maximum number of *)
(* connect attempts, the manager escalates to a device restart: the step   *)
(* that leaves the retry loop after WIFI_MAX_RETRY_COUNT attempts failed   *)
(* with the transport down goes to a reboot, and retryCount never exceeds  *)
(* the maximum.                                                            *)
C9_Original ==
    [][ /\ retryCount' <= WIFI_MAX_RETRY_COUNT
        /\ (pc = "reconnect" /\ pc' # "reconnect" /\ ~wifiUp
                /\ transportFails >= WIFI_MAX_RETRY_COUNT)
            => (pc' = "setupWiFi" /\ out' = <<RestartEvent>>) ]_vars

(* C10: while the transport is up and only the broker connection fails,    *)
(* the manager never gives up: once transport and broker are reachable and *)
(* stay reachable, the connection eventually becomes Connected.            *)
C10_Original == []([](wifiUp /\ brokerUp) => <>connected)

(* C11: every step that takes the connection into Connected leaves         *)
(* retryCount at 0, subscribes to both command topics and publishes        *)
(* exactly one "online" status event; it polls no inbound message and      *)
(* emits no other telemetry, so all of this precedes any poll and any      *)
(* other emission on the new connection.                                   *)
C11_Original ==
    [][ (~connected /\ connected')
        => /\ retryCount' = 0
           /\ subscribed' = Topics
           /\ Len(out') = 1
           /\ out'[1].kind = "status"
           /\ out'[1].action = "online"
           /\ out'[1].sent
           /\ inbound' = NoMessage ]_vars

(* C12: one call of the connectivity tick makes at most one connect        *)
(* attempt and then returns to the scheduler: a connect attempt is only    *)
(* ever the first of its call (no attempt follows a failed one inside the  *)
(* same call), so the rest of the iteration waits for one connect call.    *)
C12_Original ==
    [][ ConnectAttempt => retryCount = 0 ]_vars

(* C13: telemetry is best-effort with no queue.  No document is handed to  *)
(* the transport while the connection is not Connected; a step emits at    *)
(* most one document, and it is the one of that step's own emitter firing  *)
(* now (so nothing dropped earlier is published later); a periodic emitter *)
(* that is due fires and advances its timestamp whether or not the         *)
(* connection is Connected.                                                *)
C13_TelemetryBestEffort ==
    [][ /\ Len(out') <= 1
        /\ \A i \in 1..Len(out') :
            /\ out'[i].sent => connected'
            /\ out'[i].kind # "restart" => (out'[i].sent <=> connected')
            /\ out'[i].kind = "sensor"
                => pc = "sensors" /\ SensorDue(now) /\ data'.isValid
            /\ out'[i].kind = "heartbeat"
                => pc = "heartbeat" /\ HeartbeatDue(now)
            /\ out'[i].kind = "pump" => pumpActive' # pumpActive
            /\ out'[i].kind = "status" => ~connected /\ connected'
        /\ (pc = "sensors" /\ pc' = "heartbeat" /\ SensorDue(now))
            => /\ lastSensorReading' = now'
               /\ data'.isValid => Len(out') = 1 /\ out'[1].kind = "sensor"
        /\ (pc = "heartbeat" /\ pc' = "button" /\ HeartbeatDue(now))
            => /\ lastHeartbeat' = now
               /\ Len(out') = 1 /\ out'[1].kind = "heartbeat" ]_vars

C13_Witness ==
    /\ ~connected
    /\ Len(out) = 1
    /\ out[1].kind = "heartbeat"
    /\ ~out[1].sent
    /\ lastHeartbeat = now
    /\ lastSensorReading > SENSOR_READ_INTERVAL

(* C14: the sensor emitter fires in an iteration if and only if            *)
(* now - lastSensorReading >= its interval, the heartbeat emitter if and   *)
(* only if now - lastHeartbeat >= its interval, equality included; the     *)
(* emitter that fires sets its own timestamp, at most one document of each *)
(* is emitted per iteration, and neither changes the other's timestamp.    *)
(* With the heartbeat interval of 30000 (config.h) no heartbeat is emitted *)
(* 29000 ms after the last one and one is emitted 31000 ms after it.       *)
C14_Original ==
    [][ /\ (pc = "sensors" /\ pc' = "heartbeat")
            => /\ data'.read <=> now - lastSensorReading >= SENSOR_READ_INTERVAL
               /\ data'.read => lastSensorReading' = now'
               /\ ~data'.read => lastSensorReading' = lastSensorReading
               /\ Len(out') <= 1
               /\ lastHeartbeat' = lastHeartbeat
        /\ (pc = "heartbeat" /\ pc' = "button")
            => /\ Len(out') = 1 <=> now - lastHeartbeat >= HEARTBEAT_INTERVAL
               /\ Len(out') = 1 => lastHeartbeat' = now
               /\ Len(out') = 0 => lastHeartbeat' = lastHeartbeat
               /\ Len(out') <= 1
               /\ lastSensorReading' = lastSensorReading
               /\ now - lastHeartbeat <= CONFIG_HEARTBEAT_INTERVAL - 1000
                    => Len(out') = 0
               /\ now - lastHeartbeat >= CONFIG_HEARTBEAT_INTERVAL + 1000
                    => Len(out') = 1 ]_vars

(* C15: an invalid sensor sample is discarded: the step that took it       *)
(* publishes no sensor-data document, still writes lastSensorReading, and  *)
(* goes on to the heartbeat step of the same iteration; a sample, valid or *)
(* not, is only taken when more than the sensor interval has passed since  *)
(* the last one, so an invalid sample is not retried before that.          *)
C15_InvalidSampleDiscarded ==
    [][ /\ (data'.read /\ ~data'.isValid)
            => /\ out' = <<>>
               /\ lastSensorReading' = now'
               /\ pc = "sensors"
               /\ pc' = "heartbeat"
        /\ data'.read => now - lastSensorReading > SENSOR_READ_INTERVAL ]_vars

C15_Witness ==
    /\ data.read
    /\ ~data.isValid
    /\ connected
    /\ out = <<>>
    /\ lastSensorReading = now
    /\ pc = "heartbeat"

(* C16: the moisture percentage of every reading is in 0..100, is the      *)
(* linear interpolation between the calibrated endpoints inside them (0 at *)
(* the dry endpoint, 100 at the wet one), is clamped outside them (raw     *)
(* 1200 with dry = 1023 gives 0), and never increases as the raw value     *)
(* moves toward the dry endpoint.                                          *)
C16_MoistureInRangeMonotonic ==
    data.read =>
        /\ data.moisture \in 0..100
        /\ data.rawMoisture = MOISTURE_DRY => data.moisture = 0
        /\ data.rawMoisture = MOISTURE_WET => data.moisture = 100
        /\ data.rawMoisture = 1200 => data.moisture = 0
        /\ data.rawMoisture > MOISTURE_DRY => data.moisture = 0
        /\ data.rawMoisture \in MOISTURE_WET..MOISTURE_DRY
            => LET span == MOISTURE_DRY - MOISTURE_WET
                   part == 100 * (MOISTURE_DRY - data.rawMoisture)
               IN  /\ data.moisture * span <= part
                   /\ part < (data.moisture + 1) * span
        /\ \A sum \in MoistureSums :
            LET other == readSensors(TRUE, sum)
            IN  other.rawMoisture <= data.rawMoisture
                    => other.moisture >= data.moisture

C16_Witness ==
    /\ data.read
    /\ data.rawMoisture = 1200
    /\ data.moisture = 0
    /\ Len(out) = 1
    /\ out[1].kind = "sensor"

(* C17: a connect attempt is never made less than the retry interval after *)
(* the previous one, and every attempt, successful or failed, increments   *)
(* retryCount by exactly one.                                              *)
C17_Original ==
    [][ ConnectAttempt
        => /\ lastAttempt = NoTime
           /\ retryCount' = retryCount + 1 ]_vars

(* C18: the steps of an iteration run in the fixed order connectivity      *)
(* maintenance, inbound poll, pump timeout check, sensors, heartbeat,      *)
(* manual trigger; an inbound command reaches the actuator only in the     *)
(* poll step; and the timeout check that follows a start applied in the    *)
(* same iteration leaves the pump running.                                 *)
C18_FixedStepOrder ==
    [][ /\ pc' # pc => <<pc, pc'>> \in LoopOrder
        /\ inbound' # NoMessage => pc = "poll" /\ pc' = "timeout"
        /\ (call'.op # "none" /\ pc # "poll")
            => \/ pc = "timeout" /\ call'.op = "stop"
               \/ pc = "debounce" /\ call'.op = "start"
        /\ (pc = "timeout" /\ pumpActive /\ pumpStartTime = now)
            => pumpActive' /\ out' = <<>> ]_vars

C18_Witness ==
    /\ pc = "sensors"
    /\ pumpActive
    /\ pumpStartTime = now
    /\ now > WATERING_DURATION
    /\ lastPumpEvent = "started"
    /\ connected

(* C19: a press of the manual trigger causes exactly one start call, with  *)
(* the default duration, made by the step that confirms the press; no      *)
(* start is made while the button stays pressed; and the start passes the  *)
(* guards of a remote start: it changes nothing when the pump is active,   *)
(* and it is accepted only when the cooldown since the last stop is over.  *)
C19_Original ==
    [][ /\ (pc = "debounce" /\ pc' = "hold")
            => call' = [op |-> "start", duration |-> WATERING_DURATION]
        /\ (call'.op = "start" /\ inbound' = NoMessage)
            => pc = "debounce" /\ button = LOW
        /\ pc = "hold" => call' = NoCall
        /\ (pc = "debounce" /\ pumpActive)
            => pumpActive' /\ pumpStartTime' = pumpStartTime /\ out' = <<>>
        /\ (pc = "debounce" /\ ~pumpActive /\ pumpActive')
            => \/ lastStopTime = NoTime
               \/ now - lastStopTime >= PUMP_COOLDOWN_TIME ]_vars

(* C20: elapsed-time checks are right across the wrap of the 32-bit clock: *)
(* the timeout check stops an active pump if and only if more than the     *)
(* pump duration has truly passed since its start, the duration reported   *)
(* in a "stopped" event is the time that has truly passed, and the sensor  *)
(* and heartbeat checks fire if and only if more than their interval has   *)
(* truly passed.  (The time that has truly passed between two readings of  *)
(* the clock less than 2^31 ms apart is the difference of the numbers that *)
(* stand for them.)                                                        *)
C20_ElapsedAcrossWrap ==
    [][ /\ (pc = "timeout" /\ pc' = "sensors" /\ pumpActive)
            => (~pumpActive' <=> now - pumpStartTime > WATERING_DURATION)
        /\ (pumpActive /\ ~pumpActive')
            => Len(out') = 1 /\ out'[1].duration = now - pumpStartTime
        /\ (pc = "sensors" /\ pc' = "heartbeat")
            => (data'.read <=> now - lastSensorReading > SENSOR_READ_INTERVAL)
        /\ (pc = "heartbeat" /\ pc' = "button")
            => (Len(out') = 1 <=> now - lastHeartbeat > HEARTBEAT_INTERVAL) ]_vars

C20_Witness ==
    /\ pc = "sensors"
    /\ call.op = "stop"
    /\ pumpStartTime < 0
    /\ now >= 0
    /\ Len(out) = 1
    /\ out[1].action = "stopped"
    /\ out[1].duration > WATERING_DURATION
    /\ out[1].duration = now - pumpStartTime

\* LiveSpec with the assumption that a held button is eventually released
\* and the release is seen by the hold loop
LiveSpecReleased ==
    /\ LiveSpec
    /\ WF_vars(Release)
    /\ SF_vars(\E k \in HoldSpans : HoldExit(k, TRUE))

====
